---------------------------- MODULE Spec2Model ----------------------------
(***************************************************************************)
(* A model of the document extractor: the browser page (src/src/pages/     *)
(* Index.tsx) with its batch loop, the validation rule inside              *)
(* processImage, and the extract-document request handler                  *)
(* (src/supabase/functions/extract-document/index.ts).                     *)
(*                                                                         *)
(* JavaScript values are records tagged by their type.  Strings are        *)
(* sequences of one-character strings, so that String(), parseInt() and    *)
(* the truthiness test are computed character by character as the engine   *)
(* computes them.                                                          *)
(***************************************************************************)
EXTENDS Integers, Sequences, FiniteSets, TLC

VARIABLES
    \* ---- React state of the Index page (Index.tsx:34-39), and the
    \*      notification raised by the last step
    images, isProcessing, processingStage, processingProgress,
    results, currentResultIndex, toast,
    \* ---- activations of handleExtract that have not returned yet, and the
    \*      locals of the activation that returned in the last step
    batches, finished,
    \* ---- activations of processFiles (the uploader) whose file reads are
    \*      pending, the number of selections made so far, and activations
    \*      of handleDownloadAll that have not returned yet
    uploads, selections, downloads,
    \* ---- one evaluation of the body of processImage on a response body
    data, out,
    \* ---- one request to the extract-document handler
    req, apiKey, spc, gateway, fetches, resp

loopVars  == <<uploads, selections, downloads>>
pageVars  == <<images, isProcessing, processingStage, processingProgress,
               results, currentResultIndex, toast, batches, finished, loopVars>>
ruleVars  == <<data, out>>
serveVars == <<req, apiKey, spc, gateway, fetches, resp>>
vars      == <<pageVars, ruleVars, serveVars>>

----------------------------------------------------------------------------
(* Bounds of the model *)

MaxRows == 2
MaxImages == 3
MaxSegments == 2
MaxContent == 4
MaxDownloads == 1
MaxSelections == 2
MaxFiles == 2

----------------------------------------------------------------------------
(* JavaScript values *)

Undef    == [t |-> "undefined"]
Null     == [t |-> "null"]
Num(n)   == [t |-> "number", n |-> n]
Str(s)   == [t |-> "string", s |-> s]
Bool(b)  == [t |-> "boolean", b |-> b]
None     == [t |-> "none"]

\* ToBoolean: undefined, null, 0, "" and false are falsy.
Truthy(v) ==
    CASE v.t = "undefined" -> FALSE
      [] v.t = "null"      -> FALSE
      [] v.t = "number"    -> v.n # 0
      [] v.t = "string"    -> v.s # <<>>
      [] v.t = "boolean"   -> v.b
      [] OTHER             -> TRUE

\* a || b
OrElse(a, b) == IF Truthy(a) THEN a ELSE b

HexDigits == <<"0","1","2","3","4","5","6","7","8","9","a","b","c","d","e","f">>
HexUpper  == <<"0","1","2","3","4","5","6","7","8","9","A","B","C","D","E","F">>

IsDigit(c, radix) == \E k \in 1..radix : HexDigits[k] = c \/ HexUpper[k] = c
DigitValue(c) == (CHOOSE k \in 1..16 : HexDigits[k] = c \/ HexUpper[k] = c) - 1

RECURSIVE NatToStr(_)
NatToStr(n) ==
    IF n < 10 THEN <<HexDigits[n + 1]>>
    ELSE NatToStr(n \div 10) \o <<HexDigits[(n % 10) + 1]>>

\* Number::toString of an integer
NumToStr(n) == IF n < 0 THEN <<"-">> \o NatToStr(0 - n) ELSE NatToStr(n)

\* ToString of the language, the conversion behind String(v) and behind parseInt's argument
JsToString(v) ==
    CASE v.t = "string"    -> v.s
      [] v.t = "number"    -> NumToStr(v.n)
      [] v.t = "undefined" -> <<"u","n","d","e","f","i","n","e","d">>
      [] v.t = "null"      -> <<"n","u","l","l">>
      [] v.t = "boolean"   -> IF v.b THEN <<"t","r","u","e">>
                                     ELSE <<"f","a","l","s","e">>

IsWhiteSpace(c) == c \in {" ", "\n", "\t"}

RECURSIVE TrimStart(_)
TrimStart(s) ==
    IF s # <<>> /\ IsWhiteSpace(Head(s)) THEN TrimStart(Tail(s)) ELSE s

\* the longest prefix of s made of digits of the radix
RECURSIVE DigitPrefix(_, _)
DigitPrefix(s, radix) ==
    IF s # <<>> /\ IsDigit(Head(s), radix)
    THEN <<Head(s)>> \o DigitPrefix(Tail(s), radix)
    ELSE <<>>

\* the value of a digit string, most significant digit first
RECURSIVE DigitsValue(_, _, _)
DigitsValue(z, radix, acc) ==
    IF z = <<>> THEN acc
    ELSE DigitsValue(Tail(z), radix, acc * radix + DigitValue(Head(z)))

\* parseInt(v) with no radix argument: [nan, n].  Leading white space is
\* skipped, one sign is read, a 0x/0X prefix switches to radix 16, and the
\* longest digit prefix is the number; no digit at all is NaN.
ParseInt(v) ==
    LET s0     == TrimStart(JsToString(v))
        signed == s0 # <<>> /\ Head(s0) \in {"+", "-"}
        sign   == IF s0 # <<>> /\ Head(s0) = "-" THEN 0 - 1 ELSE 1
        s1     == IF signed THEN Tail(s0) ELSE s0
        hex    == Len(s1) >= 2 /\ s1[1] = "0" /\ s1[2] \in {"x", "X"}
        radix  == IF hex THEN 16 ELSE 10
        s2     == IF hex THEN Tail(Tail(s1)) ELSE s1
        z      == DigitPrefix(s2, radix)
    IN  IF z = <<>> THEN [nan |-> TRUE, n |-> 0]
        ELSE [nan |-> FALSE, n |-> sign * DigitsValue(z, radix, 0)]

\* parseInt(v) || 0: NaN and 0 are falsy
ParseIntOrZero(v) ==
    LET p == ParseInt(v) IN IF p.nan \/ p.n = 0 THEN 0 ELSE p.n

----------------------------------------------------------------------------
(* The body of processImage after the response has arrived                *)
(* (Index.tsx:76-112), as a function of the response                      *)

Array(a) == [t |-> "array", a |-> a]
Row(qNo, a, b, c, total) ==
    [t |-> "object", qNo |-> qNo, a |-> a, b |-> b, c |-> c, total |-> total]
Body(error, headerInfo, tableData, writtenTotal, bubbleDigits) ==
    [t |-> "object", error |-> error, headerInfo |-> headerInfo,
     tableData |-> tableData, writtenTotal |-> writtenTotal,
     bubbleDigits |-> bubbleDigits]

\* String(cell || '')
CellToString(v) == JsToString(OrElse(v, Str(<<>>)))

\* the callback of tableData.map (Index.tsx:84-90)
NormaliseRow(row) ==
    [qNo   |-> CellToString(row.qNo),
     a     |-> CellToString(row.a),
     b     |-> CellToString(row.b),
     c     |-> CellToString(row.c),
     total |-> CellToString(row.total)]

\* data.tableData || []
RawTable(d) == OrElse(d.tableData, Array(<<>>))

\* (data.tableData || []).map(...) raises a TypeError when the value has no
\* map method or when a row is null or undefined.
MapThrows(d) ==
    \/ RawTable(d).t # "array"
    \/ \E k \in DOMAIN RawTable(d).a : RawTable(d).a[k].t \in {"null", "undefined"}

NormaliseTable(d) ==
    [k \in DOMAIN RawTable(d).a |-> NormaliseRow(RawTable(d).a[k])]

\* variant: the total is read with Number(), which rejects trailing text
AddRowTotalStrict(sum, row) ==
    sum + (IF row.total # <<>> /\ DigitPrefix(row.total, 10) = row.total
           THEN DigitsValue(row.total, 10, 0) ELSE 0)

\* one step of the reduce callback (Index.tsx:92-95)
AddRowTotal(sum, row) == sum + ParseIntOrZero(Str(row.total))

\* tableData.reduce(callback, 0): a left fold starting from 0
RECURSIVE Reduce(_, _)
Reduce(rows, sum) ==
    IF rows = <<>> THEN sum ELSE Reduce(Tail(rows), AddRowTotal(sum, Head(rows)))

CalculatedSum(tableData) == Reduce(tableData, 0)

\* variant: the sum is compared with the written total
IsValidAgainstWritten(calculatedSum, writtenTotal, bubbleDigits) ==
    calculatedSum = writtenTotal

\* calculatedSum === bubbleDigits (Index.tsx:99)
IsValid(calculatedSum, writtenTotal, bubbleDigits) == calculatedSum = bubbleDigits

\* the object processImage returns (Index.tsx:84-112)
ExtractionResult(d, image) ==
    LET tableData     == NormaliseTable(d)
        calculatedSum == CalculatedSum(tableData)
        writtenTotal  == ParseIntOrZero(d.writtenTotal)
        bubbleDigits  == ParseIntOrZero(d.bubbleDigits)
    IN  [t          |-> "result",
         headerInfo |-> OrElse(d.headerInfo, [t |-> "object"]),
         tableData  |-> tableData,
         totalMarks |-> [calculated   |-> calculatedSum,
                         written      |-> writtenTotal,
                         bubbleDigits |-> bubbleDigits],
         isValid    |-> IsValid(calculatedSum, writtenTotal, bubbleDigits),
         imageId    |-> image.id,
         imageName  |-> image.name]

\* What a call of supabase.functions.invoke resolves to, together with the
\* fate of the file read before it: encode is "ok" or "error", error is the
\* transport's error (undefined when there is none), data the response body
\* (null when there is none).
Reply(encode, error, d) == [encode |-> encode, error |-> error, data |-> d]

\* variant: the error field of the body is not looked at
ProcessImageIgnoringBodyError(image, reply) ==
    IF reply.encode # "ok" THEN Null
    ELSE IF Truthy(reply.error) THEN Null
    ELSE IF reply.data.t \in {"null", "undefined"} THEN Null
    ELSE IF MapThrows(reply.data) THEN Null
    ELSE ExtractionResult(reply.data, image)

\* processImage (Index.tsx:68-117): every throw inside the try block, the
\* TypeErrors of a malformed body included, ends in the catch block, which
\* returns null.
ProcessImage(image, reply) ==
    IF reply.encode # "ok" THEN Null
    ELSE IF Truthy(reply.error) THEN Null
    ELSE IF reply.data.t \in {"null", "undefined"} THEN Null
    ELSE IF Truthy(reply.data.error) THEN Null
    ELSE IF MapThrows(reply.data) THEN Null
    ELSE ExtractionResult(reply.data, image)

----------------------------------------------------------------------------
(* The Index page: state, event handlers and the batch loop               *)

\* An ImageItem: the identifier the uploader generated and the file's name.
Image(k) == [id |-> k, name |-> k]

\* images.filter(img => img.id !== id)
RECURSIVE WithoutId(_, _)
WithoutId(list, id) ==
    IF list = <<>> THEN <<>>
    ELSE IF Head(list).id = id THEN WithoutId(Tail(list), id)
    ELSE <<Head(list)>> \o WithoutId(Tail(list), id)

\* extractedResults.filter(r => r.isValid).length
RECURSIVE ValidCount(_)
ValidCount(list) ==
    IF list = <<>> THEN 0
    ELSE (IF Head(list).isValid THEN 1 ELSE 0) + ValidCount(Tail(list))

NoImagesToast == [title |-> "No images selected"]
FailedToast   == [title |-> "Extraction Failed"]
SummaryToast(processed, attempted, valid, failed) ==
    [title |-> "Processed", processed |-> processed, attempted |-> attempted,
     valid |-> valid, failed |-> failed]

\* ---- what the service can answer to the page's calls ----

GoodRows == <<Row(Num(1), Num(5), Undef, Undef, Str(<<"5">>)),
              Row(Num(2), Undef, Undef, Undef, Str(<<"-">>)),
              Row(Num(3), Num(3), Num(4), Undef, Num(7))>>

PageBodies ==
    { Body(Undef, Undef, Array(GoodRows), Num(10), Num(12)),
      Body(Undef, Undef, Array(GoodRows), Num(12), Str(<<"1","2">>)),
      Body(Str(<<>>), Undef, Array(SubSeq(GoodRows, 1, 1)), Num(5), Num(7)) }

PageReplies ==
    { Reply("ok", [t |-> "object"], Null),                  \* transport error
      Reply("ok", Null, Body(Str(<<"e">>), Undef, Undef, Undef, Undef)),
      Reply("ok", Null, Body(Undef, Undef, Str(<<"x">>), Num(1), Num(1))) }
    \cup { Reply("ok", Null, d) : d \in PageBodies }

EncodeError == Reply("error", Null, Null)

\* toast holds the notification raised by the last step and finished the
\* locals of the activation of handleExtract that returned in the last step;
\* a step that raises no notification and returns from no activation
\* leaves both empty.
Quiet == toast' = None /\ finished' = None

\* ---- derived views ----

\* variant: the button is disabled only while there is no image
ExtractDisabledWhenEmpty == Len(images) = 0

\* the disabled attribute of the Extract button (Index.tsx:255)
ExtractDisabled == Len(images) = 0 \/ isProcessing

\* calls of the extraction service that have been issued and not answered
InFlight == Cardinality({b \in DOMAIN batches : batches[b].pc = "invoking"})

RemoveAt(list, b) ==
    [k \in 1..(Len(list) - 1) |-> IF k < b THEN list[k] ELSE list[k + 1]]

\* ---- handlers of the uploader's callbacks ----

HandleImagesSelect(newImages) ==
    /\ images' = newImages
    /\ results' = <<>>
    /\ currentResultIndex' = 0
    /\ Quiet
    /\ UNCHANGED <<isProcessing, processingStage, processingProgress, batches>>

HandleRemoveImage(id) ==
    /\ images' = WithoutId(images, id)
    /\ Quiet
    /\ UNCHANGED <<isProcessing, processingStage, processingProgress, results,
                   currentResultIndex, batches>>

\* variant: Clear also drops the batch under way
HandleClearCancelling ==
    /\ images' = <<>>
    /\ results' = <<>>
    /\ currentResultIndex' = 0
    /\ Quiet
    /\ batches' = <<>>
    /\ isProcessing' = FALSE
    /\ UNCHANGED <<processingStage, processingProgress>>

HandleClear ==
    /\ images' = <<>>
    /\ results' = <<>>
    /\ currentResultIndex' = 0
    /\ Quiet
    /\ UNCHANGED <<isProcessing, processingStage, processingProgress, batches>>

\* ---- handleExtract ----

\* variant: the counter is written with the index i, not with i + 1
LoopFromCountingFromZero(act) ==
    IF act.i < Len(act.imgs)
    THEN /\ processingProgress' = [current |-> act.i, total |-> Len(act.imgs)]
         /\ processingStage' = IF act.i = 0 THEN "scanning" ELSE "extracting"
         /\ batches' = Append(act.rest, [act.self EXCEPT !.pc = "encoding"])
    ELSE /\ processingStage' = "validating"
         /\ UNCHANGED processingProgress
         /\ batches' = Append(act.rest, [act.self EXCEPT !.pc = "validating"])

\* The loop of handleExtract from the test i < images.length on, run until
\* the activation next suspends: either inside processImage(images[i]), on
\* the file read, or after the loop on the first timer.
LoopFrom(act) ==
    IF act.i < Len(act.imgs)
    THEN /\ processingProgress' = [current |-> act.i + 1, total |-> Len(act.imgs)]
         /\ processingStage' = IF act.i = 0 THEN "scanning" ELSE "extracting"
         /\ batches' = Append(act.rest, [act.self EXCEPT !.pc = "encoding"])
    ELSE /\ processingStage' = "validating"
         /\ UNCHANGED processingProgress
         /\ batches' = Append(act.rest, [act.self EXCEPT !.pc = "validating"])

\* variant: a failed image ends the loop
AfterProcessImageAborting(b, reply, result) ==
    LET cur  == batches[b]
        next == [cur EXCEPT
                   !.extractedResults =
                       IF result.t = "result" THEN Append(@, result) ELSE @,
                   !.failedCount = IF result.t = "result" THEN @ ELSE @ + 1,
                   !.log = Append(@, reply),
                   !.i = IF result.t = "result" THEN @ + 1 ELSE Len(cur.imgs)]
    IN  LoopFrom([self |-> next, i |-> next.i, imgs |-> next.imgs,
                  rest |-> RemoveAt(batches, b)])

\* variant: an image that gave no result is tried a second time
AfterProcessImageRetrying(b, reply, result) ==
    LET cur   == batches[b]
        again == /\ result.t # "result"
                 /\ Cardinality({k \in DOMAIN cur.calls : cur.calls[k] = cur.i + 1}) < 2
        next  == IF again THEN cur
                 ELSE [cur EXCEPT
                         !.extractedResults =
                             IF result.t = "result" THEN Append(@, result) ELSE @,
                         !.failedCount = IF result.t = "result" THEN @ ELSE @ + 1,
                         !.log = Append(@, reply),
                         !.i = @ + 1]
    IN  LoopFrom([self |-> next, i |-> next.i, imgs |-> next.imgs,
                  rest |-> RemoveAt(batches, b)])

\* The tail of one iteration: result is what processImage returned.
AfterProcessImage(b, reply, result) ==
    LET cur  == batches[b]
        next == [cur EXCEPT
                   !.extractedResults =
                       IF result.t = "result" THEN Append(@, result) ELSE @,
                   !.failedCount = IF result.t = "result" THEN @ ELSE @ + 1,
                   !.log = Append(@, reply),
                   !.i = @ + 1]
    IN  LoopFrom([self |-> next, i |-> next.i, imgs |-> next.imgs,
                  rest |-> RemoveAt(batches, b)])

\* variant: the warning is raised and the shown results are reset as well
HandleExtractResetting ==
    IF Len(images) = 0
    THEN /\ toast' = NoImagesToast
         /\ finished' = None
         /\ results' = <<>>
         /\ currentResultIndex' = 0
         /\ UNCHANGED <<images, isProcessing, processingStage,
                        processingProgress, batches>>
    ELSE /\ isProcessing' = TRUE
         /\ results' = <<>>
         /\ LoopFrom([self |-> [imgs |-> images, i |-> 0,
                                extractedResults |-> <<>>, failedCount |-> 0,
                                log |-> <<>>, calls |-> <<>>, pc |-> "start"],
                      i |-> 0, imgs |-> images, rest |-> batches])
         /\ Quiet
         /\ UNCHANGED <<images, currentResultIndex>>

HandleExtract ==
    IF Len(images) = 0
    THEN /\ toast' = NoImagesToast
         /\ finished' = None
         /\ UNCHANGED <<images, isProcessing, processingStage,
                        processingProgress, results, currentResultIndex,
                        batches>>
    ELSE /\ isProcessing' = TRUE
         /\ results' = <<>>
         /\ LoopFrom([self |-> [imgs |-> images, i |-> 0,
                                extractedResults |-> <<>>, failedCount |-> 0,
                                log |-> <<>>, calls |-> <<>>, pc |-> "start"],
                      i |-> 0, imgs |-> images, rest |-> batches])
         /\ Quiet
         /\ UNCHANGED <<images, currentResultIndex>>

\* a click on the Extract button (Index.tsx:250-256)
ClickExtract == ~ExtractDisabled /\ HandleExtract /\ UNCHANGED <<loopVars, ruleVars, serveVars>>

\* fileToBase64 resolves; supabase.functions.invoke is called
EncodeDone(b) ==
    /\ batches[b].pc = "encoding"
    /\ batches' = [batches EXCEPT ![b].pc = "invoking",
                                  ![b].calls = Append(@, batches[b].i + 1)]
    /\ Quiet
    /\ UNCHANGED <<images, isProcessing, processingStage, processingProgress,
                   results, currentResultIndex>>

\* fileToBase64 rejects (reader.onerror)
EncodeFail(b) ==
    /\ batches[b].pc = "encoding"
    /\ AfterProcessImage(b, EncodeError,
                         ProcessImage(batches[b].imgs[batches[b].i + 1], EncodeError))
    /\ Quiet
    /\ UNCHANGED <<images, isProcessing, results, currentResultIndex>>

\* the call of the extraction service resolves
InvokeReturn(b, reply) ==
    /\ batches[b].pc = "invoking"
    /\ AfterProcessImage(b, reply,
                         ProcessImage(batches[b].imgs[batches[b].i + 1], reply))
    /\ Quiet
    /\ UNCHANGED <<images, isProcessing, results, currentResultIndex>>

\* variant: the results are shown as soon as the stage becomes complete
ValidatingDonePublishingEarly(b) ==
    /\ batches[b].pc = "validating"
    /\ processingStage' = "complete"
    /\ results' = batches[b].extractedResults
    /\ batches' = [batches EXCEPT ![b].pc = "complete"]
    /\ Quiet
    /\ UNCHANGED <<images, isProcessing, processingProgress, currentResultIndex>>

\* the 300 ms timer after setProcessingStage('validating')
ValidatingDone(b) ==
    /\ batches[b].pc = "validating"
    /\ processingStage' = "complete"
    /\ batches' = [batches EXCEPT ![b].pc = "complete"]
    /\ Quiet
    /\ UNCHANGED <<images, isProcessing, processingProgress, results,
                   currentResultIndex>>

\* the 200 ms timer after setProcessingStage('complete'): the rest of
\* handleExtract (Index.tsx:154-172) runs without suspending
Publish(b) ==
    LET cur == batches[b] IN
    /\ cur.pc = "complete"
    /\ results' = cur.extractedResults
    /\ currentResultIndex' = 0
    /\ isProcessing' = FALSE
    /\ toast' = IF Len(cur.extractedResults) = 0 THEN FailedToast
                ELSE SummaryToast(Len(cur.extractedResults), Len(cur.imgs),
                                  ValidCount(cur.extractedResults), cur.failedCount)
    /\ batches' = RemoveAt(batches, b)
    /\ finished' = [t |-> "batch", imgs |-> cur.imgs, log |-> cur.log,
                    calls |-> cur.calls,
                    published |-> results', failedCount |-> cur.failedCount]
    /\ UNCHANGED <<images, processingStage, processingProgress>>

\* ---- result navigation (Index.tsx:276-317) ----

NavigationShown == Len(results) > 1 /\ currentResultIndex < Len(results)

SetCurrentResultIndex(idx) ==
    /\ currentResultIndex' = idx
    /\ Quiet
    /\ UNCHANGED <<images, isProcessing, processingStage, processingProgress,
                   results, batches>>

Max(a, b) == IF a > b THEN a ELSE b
Min(a, b) == IF a < b THEN a ELSE b

ClickPrevious ==
    /\ NavigationShown /\ currentResultIndex # 0
    /\ SetCurrentResultIndex(Max(0, currentResultIndex - 1))

ClickNext ==
    /\ NavigationShown /\ currentResultIndex # Len(results) - 1
    /\ SetCurrentResultIndex(Min(Len(results) - 1, currentResultIndex + 1))

ClickDot(idx) ==
    /\ NavigationShown /\ idx \in 0..(Len(results) - 1)
    /\ SetCurrentResultIndex(idx)

\* ---- handleDownloadAll (Index.tsx:183-195) ----

DownloadAllToast(n) == [title |-> "Downloading all results", n |-> n]

\* The call of handleDownloadAll up to its first timer.  The loop reads the
\* results of the render in which the button was clicked: the activation
\* keeps their names.
HandleDownloadAll ==
    /\ toast' = DownloadAllToast(Len(results))
    /\ finished' = None
    /\ IF Len(results) > 0
       THEN /\ currentResultIndex' = 0
            /\ downloads' = Append(downloads,
                    [names |-> [k \in DOMAIN results |-> results[k].imageName],
                     i |-> 0])
       ELSE UNCHANGED <<currentResultIndex, downloads>>
    /\ UNCHANGED <<images, isProcessing, processingStage, processingProgress,
                   results, batches, uploads, selections>>

\* the button All (n), shown with a current result and more than one result
ClickDownloadAll ==
    /\ Len(results) > 1 /\ currentResultIndex < Len(results)
    /\ Len(downloads) < MaxDownloads
    /\ HandleDownloadAll
    /\ UNCHANGED <<ruleVars, serveVars>>

\* the 300 ms timer of one iteration fires: the canvas is downloaded under
\* the name of result i, and the loop goes on to the next index or ends
DownloadTimer(d) ==
    LET cur == downloads[d] IN
    /\ IF cur.i + 1 < Len(cur.names)
       THEN /\ currentResultIndex' = cur.i + 1
            /\ downloads' = [downloads EXCEPT ![d].i = cur.i + 1]
       ELSE /\ downloads' = RemoveAt(downloads, d)
            /\ UNCHANGED currentResultIndex
    /\ Quiet
    /\ UNCHANGED <<images, isProcessing, processingStage, processingProgress,
                   results, batches, uploads, selections>>

DownloadTimed ==
    /\ \E d \in DOMAIN downloads : DownloadTimer(d)
    /\ UNCHANGED <<ruleVars, serveVars>>

\* ---- processFiles of the uploader (ImageUploader: processFiles) ----

\* the ImageItem made of file number p of selection number sel; its id
\* holds the file name, the time and a random part, so no two are alike
FileItem(sel, p) == Image((sel - 1) * MaxFiles + p)

\* processFiles on n image files: one reader is started for each file.  The
\* callback closes over the images of the render in which it was created
\* (base) and over its own array newImages.
ProcessFiles(n) ==
    /\ selections < MaxSelections
    /\ selections' = selections + 1
    /\ uploads' = Append(uploads,
            [base |-> images, sel |-> selections + 1, n |-> n,
             pending |-> 1..n, newImages |-> <<>>])
    /\ Quiet
    /\ UNCHANGED <<images, isProcessing, processingStage, processingProgress,
                   results, currentResultIndex, batches, downloads>>

\* reader.onload of file p: the item is pushed, and when newImages has
\* reached the number of files, onImagesSelect is called
ReaderLoad(u, p) ==
    LET cur  == uploads[u]
        next == Append(cur.newImages, FileItem(cur.sel, p))
    IN  /\ p \in cur.pending
        /\ uploads' = [uploads EXCEPT ![u].pending = @ \ {p},
                                      ![u].newImages = next]
        /\ IF Len(next) = cur.n
           THEN HandleImagesSelect(cur.base \o next)
           ELSE /\ Quiet
                /\ UNCHANGED <<images, isProcessing, processingStage,
                               processingProgress, results,
                               currentResultIndex, batches>>
        /\ UNCHANGED <<selections, downloads>>

\* the read of file p fails: the reader has no onerror handler
ReaderError(u, p) ==
    /\ p \in uploads[u].pending
    /\ uploads' = [uploads EXCEPT ![u].pending = @ \ {p}]
    /\ Quiet
    /\ UNCHANGED <<images, isProcessing, processingStage, processingProgress,
                   results, currentResultIndex, batches, selections, downloads>>

\* ---- the page as a state machine ----

PageInit ==
    /\ images = <<>>
    /\ isProcessing = FALSE
    /\ processingStage = "scanning"
    /\ processingProgress = [current |-> 0, total |-> 0]
    /\ results = <<>>
    /\ currentResultIndex = 0
    /\ toast = None
    /\ batches = <<>>
    /\ finished = None
    /\ uploads = <<>>
    /\ selections = 0
    /\ downloads = <<>>

RuleIdle  == data = None /\ out = None
ServeIdle == /\ req = None /\ apiKey = None /\ spc = "none"
             /\ gateway = None /\ fetches = 0 /\ resp = None

Init == PageInit /\ RuleIdle /\ ServeIdle

\* the uploader hands over the list it has composed
SelectImages ==
    /\ \E k \in 1..MaxImages : HandleImagesSelect([j \in 1..k |-> Image(j)])
    /\ UNCHANGED <<loopVars, ruleVars, serveVars>>

RemoveImage ==
    /\ \E k \in 1..Len(images) : HandleRemoveImage(images[k].id)
    /\ UNCHANGED <<loopVars, ruleVars, serveVars>>

Clear == HandleClear /\ UNCHANGED <<loopVars, ruleVars, serveVars>>

Encoded == (\E b \in DOMAIN batches : EncodeDone(b)) /\ UNCHANGED <<loopVars, ruleVars, serveVars>>

EncodeFailed == (\E b \in DOMAIN batches : EncodeFail(b)) /\ UNCHANGED <<loopVars, ruleVars, serveVars>>

Answered ==
    /\ \E b \in DOMAIN batches : \E reply \in PageReplies : InvokeReturn(b, reply)
    /\ UNCHANGED <<loopVars, ruleVars, serveVars>>

Validated == (\E b \in DOMAIN batches : ValidatingDone(b)) /\ UNCHANGED <<loopVars, ruleVars, serveVars>>

Published == (\E b \in DOMAIN batches : Publish(b)) /\ UNCHANGED <<loopVars, ruleVars, serveVars>>

Navigate ==
    /\ ClickPrevious \/ ClickNext \/ (\E idx \in 0..MaxImages : ClickDot(idx))
    /\ UNCHANGED <<loopVars, ruleVars, serveVars>>

Next ==
    \/ SelectImages
    \/ RemoveImage
    \/ Clear
    \/ ClickExtract
    \/ Encoded
    \/ EncodeFailed
    \/ Answered
    \/ Validated
    \/ Published
    \/ Navigate

Spec == Init /\ [][Next]_vars

\* handleExtract called as a function, whatever the button shows, on a page
\* with no activation under way
CallExtract ==
    /\ batches = <<>> /\ ~isProcessing
    /\ HandleExtract
    /\ UNCHANGED <<loopVars, ruleVars, serveVars>>

CallNext == Next \/ CallExtract

SpecCall == Init /\ [][CallNext]_vars

\* The page when every pending file read settles, every call of the service
\* resolves or rejects, and the two timers of handleExtract fire.  A call
\* ends here in a transport error or in one well-formed body.
LiveReplies ==
    { Reply("ok", [t |-> "object"], Null),
      Reply("ok", Null, Body(Undef, Undef, Array(GoodRows), Num(10), Num(12))) }

AnsweredLive ==
    /\ \E b \in DOMAIN batches : \E reply \in LiveReplies : InvokeReturn(b, reply)
    /\ UNCHANGED <<loopVars, ruleVars, serveVars>>

LiveNext ==
    \/ SelectImages
    \/ RemoveImage
    \/ Clear
    \/ ClickExtract
    \/ Encoded
    \/ EncodeFailed
    \/ AnsweredLive
    \/ Validated
    \/ Published
    \/ Navigate

Fairness ==
    /\ WF_vars(Encoded \/ EncodeFailed)
    /\ WF_vars(AnsweredLive)
    /\ WF_vars(Validated)
    /\ WF_vars(Published)

SpecLive == Init /\ [][LiveNext]_vars /\ Fairness

\* the page with the button that downloads every result
DownloadNext == LiveNext \/ ClickDownloadAll \/ DownloadTimed

SpecDownload == Init /\ [][DownloadNext]_vars

\* the uploader: files are chosen, their reads end one by one in any order,
\* and images are removed or cleared meanwhile
FilesChosen ==
    /\ \E n \in 1..MaxFiles : ProcessFiles(n)
    /\ UNCHANGED <<ruleVars, serveVars>>

ReaderLoaded ==
    /\ \E u \in DOMAIN uploads : \E p \in 1..MaxFiles : ReaderLoad(u, p)
    /\ UNCHANGED <<ruleVars, serveVars>>

ReaderFailed ==
    /\ \E u \in DOMAIN uploads : \E p \in 1..MaxFiles : ReaderError(u, p)
    /\ UNCHANGED <<ruleVars, serveVars>>

UploadNext == FilesChosen \/ ReaderLoaded \/ ReaderFailed \/ RemoveImage \/ Clear

SpecUpload == Init /\ [][UploadNext]_vars

----------------------------------------------------------------------------
(* Properties of the page                                                  *)

Elements(list) == {list[k] : k \in DOMAIN list}

\* the activations under way and, when one has just returned, its locals
Activations ==
    {[imgs |-> batches[b].imgs, log |-> batches[b].log,
      list |-> batches[b].extractedResults,
      failedCount |-> batches[b].failedCount] : b \in DOMAIN batches}
    \cup (IF finished.t = "batch"
          THEN {[imgs |-> finished.imgs, log |-> finished.log,
                 list |-> finished.published,
                 failedCount |-> finished.failedCount]}
          ELSE {})

\* every result that exists in the state: shown, being collected, or just published
ProducedResults ==
    Elements(results) \cup UNION {Elements(act.list) : act \in Activations}

\* the two results agree on the header, the rows, the calculated sum and the
\* bubble digits, whatever image they come from
AgreeButForWritten(r1, r2) ==
    /\ r1.headerInfo = r2.headerInfo
    /\ r1.tableData = r2.tableData
    /\ r1.totalMarks.calculated = r2.totalMarks.calculated
    /\ r1.totalMarks.bubbleDigits = r2.totalMarks.bubbleDigits

\* C1: every result that processImage has produced, and so every element of
\* the published result list, has isValid true exactly when its calculated
\* sum equals its bubble digits; two results that differ only in the written
\* total have the same isValid.
C1_ValidIffCalculatedEqualsBubble ==
    /\ \A r \in ProducedResults :
          r.isValid <=> (r.totalMarks.calculated = r.totalMarks.bubbleDigits)
    /\ \A r1, r2 \in ProducedResults :
          AgreeButForWritten(r1, r2) => r1.isValid = r2.isValid

\* a published list with two valid results that differ in the written total
\* only, one of them with a written total unlike its sum, and an invalid one
C1_Witness ==
    /\ \E r1, r2 \in Elements(results) :
          /\ AgreeButForWritten(r1, r2)
          /\ r1.totalMarks.written # r2.totalMarks.written
          /\ r1.totalMarks.written # r1.totalMarks.calculated
          /\ r1.isValid
    /\ \E r3 \in Elements(results) : ~r3.isValid

\* the response makes processImage succeed: the file was read, the transport
\* reported no error, the body is an object with no error and a table that
\* can be walked
\* what an if statement takes for no error: absent, null or the empty string
NoError(v) == v.t \in {"null", "undefined"} \/ v = Str(<<>>)

WellFormedSuccess(reply) ==
    /\ reply.encode = "ok"
    /\ NoError(reply.error)
    /\ reply.data.t = "object"
    /\ NoError(reply.data.error)
    /\ reply.data.tableData.t \in {"null", "undefined", "array"}
    /\ reply.data.tableData.t = "array" =>
          \A k \in DOMAIN reply.data.tableData.a : reply.data.tableData.a[k].t = "object"

\* the images among the first n with a well-formed response, in list order
RECURSIVE SucceededImages(_, _, _)
SucceededImages(imgs, log, n) ==
    IF n = 0 THEN <<>>
    ELSE SucceededImages(imgs, log, n - 1)
         \o (IF WellFormedSuccess(log[n]) THEN <<imgs[n].id>> ELSE <<>>)

FailureCount(log) == Cardinality({k \in DOMAIN log : ~WellFormedSuccess(log[k])})

\* C2: a failure of one image (file read, transport, service-reported error,
\* malformed body) never ends the loop: the images handled so far are exactly
\* the first i, the collected results are those of the images that succeeded,
\* in list order, the failure counter counts the others, and an activation
\* leaves the loop, and publishes, only after the last image.
C2_FailureNeverAbortsBatch ==
    \A act \in Activations :
        /\ Len(act.log) <= Len(act.imgs)
        /\ [k \in DOMAIN act.list |-> act.list[k].imageId]
              = SucceededImages(act.imgs, act.log, Len(act.log))
        /\ act.failedCount = FailureCount(act.log)
        /\ Len(act.list) + act.failedCount = Len(act.log)
        /\ \A b \in DOMAIN batches :
              /\ batches[b].i = Len(batches[b].log)
              /\ batches[b].pc \in {"validating", "complete"}
                    => Len(batches[b].log) = Len(batches[b].imgs)
        /\ finished.t = "batch" =>
              /\ Len(finished.log) = Len(finished.imgs)
              /\ Len(finished.published) + finished.failedCount = Len(finished.imgs)

\* a batch of three images has returned; the file of the second could not be
\* read, and the results of the first and the third were published in order
C2_Witness ==
    /\ finished.t = "batch"
    /\ Len(finished.imgs) = 3
    /\ finished.log[2] = EncodeError
    /\ finished.failedCount = 1
    /\ Len(finished.published) = 2
    /\ results = finished.published
    /\ results[1].imageId = finished.imgs[1].id
    /\ results[2].imageId = finished.imgs[3].id

\* C3: never are two calls of the extraction service in flight, and never
\* are two activations of handleExtract under way: a batch is started only
\* through the Extract button, which is disabled while the busy flag is set,
\* and the flag is set as long as an activation is under way.
C3_OneCallInFlight ==
    /\ InFlight <= 1
    /\ Len(batches) <= 1
    /\ batches # <<>> => isProcessing /\ ExtractDisabled

\* the call for the second image of a batch is in flight, images are selected
C3_Witness ==
    /\ InFlight = 1
    /\ Len(images) > 0
    /\ \E b \in DOMAIN batches : batches[b].pc = "invoking" /\ batches[b].i = 1

\* the image behind a response produced a result
HasResult(act, k) == \E r \in Elements(act.list) : r.imageId = act.imgs[k].id

\* C9: processImage yields a result only when the file was read, the
\* transport reported no error and the body reports no error (its error
\* field is absent or empty); in every other case the image yields nothing,
\* the loop goes on (nothing reaches handleExtract), and the list holds
\* nothing but complete results.
C9_ResultOnlyOnSuccess ==
    \A act \in Activations :
        /\ \A k \in DOMAIN act.log :
              HasResult(act, k) =>
                  /\ act.log[k].encode = "ok"
                  /\ NoError(act.log[k].error)
                  /\ act.log[k].data.t = "object"
                  /\ NoError(act.log[k].data.error)
        /\ \A r \in Elements(act.list) :
              /\ r.t = "result"
              /\ \E k \in DOMAIN act.log : r.imageId = act.imgs[k].id
        /\ Len(act.list) <= Len(act.log)

\* a batch has returned in which one image met a transport error, one a body
\* with an error field, and one succeeded
C9_Witness ==
    /\ finished.t = "batch"
    /\ \E k \in DOMAIN finished.log : Truthy(finished.log[k].error)
    /\ \E k \in DOMAIN finished.log :
          /\ finished.log[k].data.t = "object"
          /\ Truthy(finished.log[k].data.error)
    /\ Len(finished.published) = 1

\* C10: handleExtract on an empty image list only raises the warning: the
\* step that raises it starts no activation and no call, and leaves the busy
\* flag, the stage, the progress counter, the result list and the current
\* result index as they were.
C10_EmptyListOnlyWarns ==
    [][toast' = NoImagesToast =>
          /\ Len(images) = 0
          /\ UNCHANGED <<images, isProcessing, processingStage,
                         processingProgress, results, currentResultIndex,
                         batches>>]_vars

\* the warning has been raised on a page that shows results
C10_Witness ==
    /\ toast = NoImagesToast
    /\ Len(images) = 0
    /\ Len(results) > 0
    /\ currentResultIndex > 0

\* one step seen from the activation of handleExtract under way: it starts
\* on the images selected at that moment; while it runs its list stays what
\* it was, its index never goes back and the busy flag stays set; and it
\* ends only by publishing, with one result or one failure for each image
BatchStep ==
    /\ (batches = <<>> /\ batches' # <<>>) => batches'[1].imgs = images
    /\ batches # <<>> =>
          \/ /\ batches' # <<>>
             /\ batches'[1].imgs = batches[1].imgs
             /\ batches'[1].i >= batches[1].i
             /\ isProcessing'
          \/ /\ batches' = <<>>
             /\ finished'.t = "batch"
             /\ finished'.imgs = batches[1].imgs
             /\ Len(finished'.log) = Len(finished'.imgs)
             /\ results' = finished'.published
             /\ Len(finished'.published) + finished'.failedCount
                   = Len(finished'.imgs)
             /\ ~isProcessing'

\* C11: a batch that has started runs to completion over the images selected
\* at its start: when every call returns or fails, it publishes its results
\* and resets the busy flag; results and failures together number the images
\* attempted; and no step of the user ends it or changes its list.
C11_BatchRunsToCompletion ==
    /\ [][BatchStep]_vars
    /\ (batches # <<>>) ~> (finished.t = "batch" /\ ~isProcessing)

\* a batch over three images has returned although the user cleared the
\* selection while it ran; one image had failed
C11_Witness ==
    /\ finished.t = "batch"
    /\ Len(finished.imgs) = 3
    /\ images = <<>>
    /\ finished.failedCount = 1
    /\ Len(results) = 2
    /\ ~isProcessing

\* the counter while a batch is under way: total is the length of the
\* batch's list, and current the number of the item being handled
ProgressOfBatch ==
    batches # <<>> =>
        LET act == batches[1] IN
        /\ processingProgress.total = Len(act.imgs)
        /\ act.pc \in {"encoding", "invoking"} =>
              processingProgress.current = act.i + 1
        /\ act.pc \in {"validating", "complete"} =>
              processingProgress.current = Len(act.imgs)

\* a step that changes the counter starts an item: it sets current to the
\* number of that item, one more than before within a batch and 1 at the
\* start of a batch, and total to the length of the batch's list
ProgressStep ==
    processingProgress' # processingProgress =>
        /\ batches' # <<>>
        /\ batches'[1].pc = "encoding"
        /\ processingProgress' =
              [current |-> batches'[1].i + 1, total |-> Len(batches'[1].imgs)]
        /\ IF batches # <<>>
           THEN /\ processingProgress'.current = processingProgress.current + 1
                /\ processingProgress'.total = processingProgress.total
           ELSE processingProgress'.current = 1

\* C16: in a batch of n images the progress counter is written once for
\* each item, before the item's extraction starts; current takes the values
\* 1, 2, ..., n in this order and total stays n; and always
\* 0 <= current <= total.
C16_ProgressCountsItems ==
    /\ [](/\ 0 <= processingProgress.current
          /\ processingProgress.current <= processingProgress.total
          /\ ProgressOfBatch)
    /\ [][ProgressStep]_vars

\* the third image of three is about to be read and the counter shows 3 of 3
C16_Witness ==
    /\ batches # <<>>
    /\ batches[1].pc = "encoding"
    /\ batches[1].i = 2
    /\ Len(batches[1].log) = 2
    /\ processingProgress = [current |-> 3, total |-> 3]

\* the place of a stage in the order of a batch
StageRank(stage) ==
    CASE stage = "scanning"   -> 0
      [] stage = "extracting" -> 1
      [] stage = "validating" -> 2
      [] stage = "complete"   -> 3

\* while a batch is under way the busy flag is set, the result list is
\* empty, and the stage is the one of the batch's position
StageOfBatch ==
    batches # <<>> =>
        LET act == batches[1] IN
        /\ isProcessing
        /\ results = <<>>
        /\ act.pc \in {"encoding", "invoking"} =>
              processingStage = IF act.i = 0 THEN "scanning" ELSE "extracting"
        /\ act.pc = "validating" =>
              processingStage = "validating" /\ act.i = Len(act.imgs)
        /\ act.pc = "complete" =>
              processingStage = "complete" /\ act.i = Len(act.imgs)

\* a batch starts busy, with an empty result list, in stage scanning; while
\* it runs the stage does not go back; and it ends from stage complete, by
\* publishing its list and resetting the busy flag
StageStep ==
    /\ (batches = <<>> /\ batches' # <<>>) =>
          isProcessing' /\ results' = <<>> /\ processingStage' = "scanning"
    /\ (batches # <<>> /\ batches' # <<>>) =>
          StageRank(processingStage') >= StageRank(processingStage)
    /\ (batches # <<>> /\ batches' = <<>>) =>
          /\ batches[1].pc = "complete"
          /\ processingStage = "complete"
          /\ results' = batches[1].extractedResults
          /\ ~isProcessing'
    /\ (batches = <<>> /\ batches' = <<>>) =>
          UNCHANGED <<isProcessing, processingStage>>

\* C17: in a batch the busy flag is set and the result list emptied first;
\* the stage is scanning for the first item and extracting for each later
\* one, then validating, then complete; then the result list is published
\* and the busy flag reset.  The stage never goes back in this order, and
\* the result list is empty from the start of the batch to its publication.
C17_StagesInOrder ==
    /\ [](StageOfBatch)
    /\ [][StageStep]_vars

\* a batch of two images is in stage complete, its two results not yet shown
C17_Witness ==
    /\ batches # <<>>
    /\ batches[1].pc = "complete"
    /\ Len(batches[1].extractedResults) = 2
    /\ processingStage = "complete"
    /\ results = <<>>
    /\ isProcessing

\* C18: whenever the result list is not empty, currentResultIndex is an
\* index into it, 0 <= currentResultIndex < results.length, whatever the
\* interleaving of navigation, selection, Clear, a new batch and a download
\* loop that still steps through an earlier result list.
C18_CurrentIndexValid ==
    results # <<>> =>
        currentResultIndex >= 0 /\ currentResultIndex < Len(results)

\* the items of the files of a selection that were read, in selection order
RECURSIVE ItemsInSelectionOrder(_, _)
ItemsInSelectionOrder(upload, p) ==
    IF p > upload.n THEN <<>>
    ELSE (IF FileItem(upload.sel, p) \in Elements(upload.newImages)
          THEN <<FileItem(upload.sel, p)>> ELSE <<>>)
         \o ItemsInSelectionOrder(upload, p + 1)

\* the step in which the last pending read of a selection ends leaves the
\* working set as the images held before the selection followed by the
\* items of the selection, in selection order, and drops no image
SelectionStep ==
    \A u \in DOMAIN uploads :
        (uploads[u].pending # {} /\ uploads'[u].pending = {}) =>
            /\ images' = uploads[u].base \o ItemsInSelectionOrder(uploads'[u], 1)
            /\ \A img \in Elements(images) : img \in Elements(images')

\* C19: adding files never loses images: when the reads of a selection have
\* ended, the working set is every image held before the selection followed
\* by one item for each image file of the selection, in selection order,
\* in whatever order the reads end, with a second selection or a removal
\* while reads are pending, and when a read fails.
C19_SelectionKeepsImages == [][SelectionStep]_vars

----------------------------------------------------------------------------
(* The body of processImage on its own: one response body, drawn from a   *)
(* larger set, on which the normalisation and the validation rule are run *)

SeqsUpTo(S, n) == UNION {[1..k -> S] : k \in 0..n}

TotalStrings ==
    { <<>>, <<"5">>, <<"7">>, <<"0">>, <<"-">>, <<"1","2">>, <<"-","3">>,
      <<"5","a">>, <<" ","7">>, <<"5",".","5">>, <<"0","x","1","0">> }


RuleCells ==
    {Undef, Null, Num(0), Num(5), Bool(FALSE)} \cup {Str(s) : s \in TotalStrings}

RuleRows ==
    {Row(Num(1), Num(5), Undef, Undef, total) : total \in RuleCells}
    \cup {Null, Row(Str(<<"Q">>), Undef, Num(0), Str(<<"2">>), Str(<<"7">>))}

RuleTables ==
    {Undef, Null, Str(<<"x">>), Array(GoodRows)}
    \cup {Array(a) : a \in SeqsUpTo(RuleRows, MaxRows)}

RuleBubbles  == {Undef, Num(0), Num(5), Num(12), Str(<<"7">>), Str(<<"1","2">>), Str(<<"x">>)}
RuleWrittens == {Undef, Num(10), Str(<<"1","2">>)}

RuleBodies ==
    {Body(Undef, Undef, table, written, bubble) :
        table \in RuleTables, written \in RuleWrittens, bubble \in RuleBubbles}

RuleInit == PageInit /\ ServeIdle /\ data \in RuleBodies /\ out = None

\* processImage runs on the response body; it may be run again on the same body
ApplyRule ==
    /\ out' = ProcessImage(Image(1), Reply("ok", Null, data))
    /\ UNCHANGED <<data, pageVars, serveVars>>

RuleNext == ApplyRule

SpecRule == RuleInit /\ [][RuleNext]_vars

----------------------------------------------------------------------------
(* Properties of the validation rule                                       *)

\* the integer that is read off a total, 0 when none can be read
IntegerOfTotal(total) ==
    LET p == ParseInt(Str(total)) IN IF p.nan THEN 0 ELSE p.n

RECURSIVE SumOfTotals(_)
SumOfTotals(rows) ==
    IF rows = <<>> THEN 0
    ELSE SumOfTotals(SubSeq(rows, 1, Len(rows) - 1))
         + IntegerOfTotal(rows[Len(rows)].total)

\* C6: the calculated total of a result is the sum, over its rows, of the
\* integer read off each row's total, a total that is empty or holds no
\* number counting 0; however often the rule has been run on the rows, the
\* calculated total and isValid are the ones these rows determine.
C6_CalculatedIsSumOfTotals ==
    out.t = "result" =>
        /\ out.totalMarks.calculated = SumOfTotals(out.tableData)
        /\ out.isValid = (SumOfTotals(out.tableData) = out.totalMarks.bubbleDigits)

\* the rows "5", "-", "7" have been summed to 12
C6_Witness ==
    /\ out.t = "result"
    /\ [k \in DOMAIN out.tableData |-> out.tableData[k].total]
          = <<<<"5">>, <<"-">>, <<"7">>>>
    /\ out.totalMarks.calculated = 12

\* the cells of a row, in the order qNo, a, b, c, total
Cells(row) == <<row.qNo, row.a, row.b, row.c, row.total>>

\* the string a cell is to become: empty for a cell that is missing (absent
\* or null), its string form for every other value
CellAsString(cell) ==
    IF cell.t \in {"undefined", "null"} THEN <<>> ELSE JsToString(cell)

\* the integer read off a reported total, 0 when none can be read
IntegerOrZero(v) == LET p == ParseInt(v) IN IF p.nan THEN 0 ELSE p.n

\* C12: the normalisation turns every cell of every row into a string, only
\* a missing cell into the empty string and every other value into its
\* string form, keeps the rows in their order, and reads writtenTotal and
\* bubbleDigits as integers, 0 when they cannot be parsed.
C12_NormalisationKeepsEveryValue ==
    out.t = "result" =>
        LET raw == IF data.tableData.t = "array" THEN data.tableData.a ELSE <<>> IN
        /\ Len(out.tableData) = Len(raw)
        /\ \A k \in DOMAIN raw : \A f \in 1..5 :
              Cells(out.tableData[k])[f] = CellAsString(Cells(raw[k])[f])
        /\ out.totalMarks.written = IntegerOrZero(data.writtenTotal)
        /\ out.totalMarks.bubbleDigits = IntegerOrZero(data.bubbleDigits)

----------------------------------------------------------------------------
(* The extract-document handler (supabase/functions/extract-document/     *)
(* index.ts).  A data URL is far too long to be spelt out, so a string    *)
(* here is a sequence of pieces, each a literal piece of text or a run of *)
(* base64 characters of a given length; a comma is always a piece of its  *)
(* own.  The model's reply is a sequence of pieces as well: a fence       *)
(* marker, the word json, a line break, a blank, a digit, a double quote  *)
(* or a letter.                                                           *)

Piece(lit, len) == [lit |-> lit, len |-> len]
Comma      == Piece(",", 1)
Base64Run(n) == Piece("AAAA", n)

RECURSIVE TextLength(_)
TextLength(s) == IF s = <<>> THEN 0 ELSE Head(s).len + TextLength(Tail(s))

SupportedSubtypes == {"jpeg", "jpg", "png", "webp", "gif", "bmp"}

\* /^data:image\/(jpeg|jpg|png|webp|gif|bmp);base64,/.test(s)
MatchesDataUrl(s) ==
    /\ Len(s) >= 5
    /\ s[1].lit = "data:"
    /\ s[2].lit = "image/"
    /\ s[3].lit \in SupportedSubtypes
    /\ s[4].lit = ";base64"
    /\ s[5] = Comma

\* the pieces of s before its first comma
RECURSIVE UpToComma(_)
UpToComma(s) ==
    IF s = <<>> \/ Head(s) = Comma THEN <<>>
    ELSE <<Head(s)>> \o UpToComma(Tail(s))

\* what follows the first comma of s (s holds one)
RECURSIVE AfterComma(_)
AfterComma(s) == IF Head(s) = Comma THEN Tail(s) ELSE AfterComma(Tail(s))

HasComma(s) == \E k \in DOMAIN s : s[k] = Comma

\* s.split(',')[1] || '': the text between the first comma and the second
SecondField(s) == IF HasComma(s) THEN UpToComma(AfterComma(s)) ELSE <<>>

\* 10 * 1024 * 1024
MaxSizeBytes == 10 * 1024 * 1024

\* Math.ceil(base64Data.length * 0.75)
SizeInBytes(s) == (3 * TextLength(SecondField(s)) + 3) \div 4

MsgNoImage  == "No image provided"
MsgFormat   == "Invalid image format. Only JPEG, PNG, WEBP, GIF, and BMP supported."
MsgTooLarge == "Image too large. Maximum size is 10MB."
MsgNoKey    == "API key not configured"
MsgRate     == "Rate limit exceeded. Please try again later."
MsgCredits  == "AI credits exhausted. Please add credits."
MsgFailed   == "Failed to process document"
MsgParse    == "Failed to parse extracted data"

CorsHeaders == [allowOrigin |-> "*", contentType |-> "none"]
JsonHeaders == [allowOrigin |-> "*", contentType |-> "application/json"]

\* JSON.stringify({ error, rawContent }): a key whose value is undefined is left out
ErrorBody(msg, rawContent) == [t |-> "error", error |-> msg, rawContent |-> rawContent]

JsonResponse(status, body) == [t |-> "response", status |-> status,
                               headers |-> JsonHeaders, body |-> body]

\* new Response(null, { headers: corsHeaders })
OptionsResponse == [t |-> "response", status |-> 200, headers |-> CorsHeaders,
                    body |-> Null]

\* variant: the catch block answers without the cross-origin headers
CaughtResponseBare(message) ==
    [t |-> "response", status |-> 500,
     headers |-> [allowOrigin |-> "none", contentType |-> "application/json"],
     body |-> ErrorBody(message, Undef)]

\* the catch block at the end of the handler (index.ts:166-173)
CaughtResponse(message) == JsonResponse(500, ErrorBody(message, Undef))

\* String(v), as base64Regex.test(v) sees a value: a string is itself, an
\* array is its elements joined by commas, and any other value is a text
\* that is no data URL (digits, true, [object Object])
RECURSIVE JoinTexts(_)
JoinTexts(a) ==
    IF a = <<>> THEN <<>>
    ELSE (IF Head(a).t = "string" THEN Head(a).s ELSE <<Piece("other", 1)>>)
         \o (IF Len(a) > 1 THEN <<Comma>> ELSE <<>>)
         \o JoinTexts(Tail(a))

TextOf(v) ==
    CASE v.t = "string" -> v.s
      [] v.t = "array"  -> JoinTexts(v.a)
      [] OTHER          -> <<Piece("other", 1)>>

\* the TypeError of imageBase64.split on a value that is no string
MsgNoSplit == "imageBase64.split is not a function"

\* variant: the credential is looked up before the input is checked
ValidationFailureKeyFirst(imageBase64, key) ==
    IF ~Truthy(key) THEN JsonResponse(500, ErrorBody(MsgNoKey, Undef))
    ELSE IF ~Truthy(imageBase64) THEN JsonResponse(400, ErrorBody(MsgNoImage, Undef))
    ELSE IF ~MatchesDataUrl(TextOf(imageBase64))
    THEN JsonResponse(400, ErrorBody(MsgFormat, Undef))
    ELSE IF imageBase64.t # "string" THEN CaughtResponse(MsgNoSplit)
    ELSE IF SizeInBytes(imageBase64.s) > MaxSizeBytes
    THEN JsonResponse(400, ErrorBody(MsgTooLarge, Undef))
    ELSE None

\* the checks of index.ts:16-53, in their order: the response of the first
\* one that fails, None when all pass.  A value that is no string but whose
\* string form passes the regular expression makes split raise a TypeError,
\* which the catch block at the end of the handler answers.
ValidationFailure(imageBase64, key) ==
    IF ~Truthy(imageBase64) THEN JsonResponse(400, ErrorBody(MsgNoImage, Undef))
    ELSE IF ~MatchesDataUrl(TextOf(imageBase64))
    THEN JsonResponse(400, ErrorBody(MsgFormat, Undef))
    ELSE IF imageBase64.t # "string" THEN CaughtResponse(MsgNoSplit)
    ELSE IF SizeInBytes(imageBase64.s) > MaxSizeBytes
    THEN JsonResponse(400, ErrorBody(MsgTooLarge, Undef))
    ELSE IF ~Truthy(key) THEN JsonResponse(500, ErrorBody(MsgNoKey, Undef))
    ELSE None

\* variant: the gateway's status and text are handed on
UpstreamFailurePassedOn(status, errorText) ==
    JsonResponse(status, ErrorBody(errorText, Undef))

\* the branch if (!response.ok) (index.ts:109-130)
UpstreamFailure(status, errorText) ==
    IF status = 429 THEN JsonResponse(429, ErrorBody(MsgRate, Undef))
    ELSE IF status = 402 THEN JsonResponse(402, ErrorBody(MsgCredits, Undef))
    ELSE JsonResponse(500, ErrorBody(MsgFailed, Undef))

\* ---- the clean-up of the model's reply (index.ts:139-147) ----

\* the fence marker: three backquotes
Fence == "fence"

\* content.includes(fence + 'json')
IncludesJsonFence(c) == \E k \in 1..(Len(c) - 1) : c[k] = Fence /\ c[k + 1] = "json"

\* content.includes(fence)
IncludesFence(c) == \E k \in DOMAIN c : c[k] = Fence

\* c.replace(/<fence>json\n?/g, '')
RECURSIVE RemoveJsonFences(_)
RemoveJsonFences(c) ==
    IF c = <<>> THEN <<>>
    ELSE IF Len(c) >= 2 /\ c[1] = Fence /\ c[2] = "json"
    THEN IF Len(c) >= 3 /\ c[3] = "\n"
         THEN RemoveJsonFences(SubSeq(c, 4, Len(c)))
         ELSE RemoveJsonFences(SubSeq(c, 3, Len(c)))
    ELSE <<Head(c)>> \o RemoveJsonFences(Tail(c))

\* c.replace(/<fence>\n?/g, '')
RECURSIVE RemoveFences(_)
RemoveFences(c) ==
    IF c = <<>> THEN <<>>
    ELSE IF c[1] = Fence
    THEN IF Len(c) >= 2 /\ c[2] = "\n"
         THEN RemoveFences(SubSeq(c, 3, Len(c)))
         ELSE RemoveFences(Tail(c))
    ELSE <<Head(c)>> \o RemoveFences(Tail(c))

CleanContent(c) ==
    IF IncludesJsonFence(c) THEN RemoveFences(RemoveJsonFences(c))
    ELSE IF IncludesFence(c) THEN RemoveFences(c)
    ELSE c

RECURSIVE TrimEnd(_)
TrimEnd(c) ==
    IF c # <<>> /\ IsWhiteSpace(c[Len(c)]) THEN TrimEnd(SubSeq(c, 1, Len(c) - 1)) ELSE c

Trim(c) == TrimEnd(TrimStart(c))

\* JSON.parse on the pieces: [ok, value].  The texts that parse are a number
\* (digits) and a string (a quote, pieces other than a quote or a line
\* break, a quote), with white space around them.
ParseJson(c) ==
    LET t == Trim(c) IN
    IF t # <<>> /\ \A k \in DOMAIN t : t[k] = "1"
    THEN [ok |-> TRUE, value |-> Num(DigitsValue(t, 10, 0))]
    ELSE IF /\ Len(t) >= 2 /\ t[1] = "\"" /\ t[Len(t)] = "\""
            /\ \A k \in 2..(Len(t) - 1) : t[k] \notin {"\"", "\n"}
    THEN [ok |-> TRUE, value |-> Str(SubSeq(t, 2, Len(t) - 1))]
    ELSE [ok |-> FALSE, value |-> Undef]

\* the catch block around the parse (index.ts:148-158)
ParseFailure(content) == JsonResponse(500, ErrorBody(MsgParse, content))

\* index.ts:138-164.  A content that is no string makes includes or trim
\* raise a TypeError inside the try block.
PostProcess(content) ==
    IF content.t # "string" THEN ParseFailure(content)
    ELSE LET p == ParseJson(Trim(CleanContent(content.s))) IN
         IF p.ok THEN [t |-> "response", status |-> 200, headers |-> JsonHeaders,
                       body |-> p.value]
         ELSE ParseFailure(content)

\* ---- what the gateway can do ----

NetworkError == [t |-> "networkError", status |-> 0, text |-> "", json |-> FALSE,
                 data |-> Undef]
\* a response with a status, its text, whether the text is JSON, and the
\* JSON value: null, or an object whose choices[0].message.content is content
GatewayResponse(status, text, json, d) ==
    [t |-> "response", status |-> status, text |-> text, json |-> json, data |-> d]
Completion(content) == [t |-> "object", content |-> content]

\* response.ok
Ok(status) == status \in 200..299

\* the handler from the return of fetch on (index.ts:109-164)
OnGatewayReply(reply) ==
    IF reply.t = "networkError" THEN CaughtResponse("fetch failed")
    ELSE IF ~Ok(reply.status) THEN UpstreamFailure(reply.status, reply.text)
    ELSE IF ~reply.json THEN CaughtResponse("Unexpected token")
    ELSE IF reply.data.t # "object" THEN CaughtResponse("Cannot read properties of null")
    ELSE PostProcess(reply.data.content)

\* ---- requests ----

Request(method, body) == [t |-> "request", method |-> method, body |-> body]
\* a body that is no JSON, the JSON value null, or a JSON object
NotJson == [t |-> "notJson"]
JsonObject(imageBase64) == [t |-> "object", imageBase64 |-> imageBase64]

\* the handler up to its first await on the gateway (index.ts:8-107)
Handle ==
    /\ spc = "received"
    /\ IF req.method = "OPTIONS"
       THEN resp' = OptionsResponse /\ spc' = "responded" /\ UNCHANGED fetches
       ELSE IF req.body.t = "notJson"
       THEN resp' = CaughtResponse("Unexpected token")
            /\ spc' = "responded" /\ UNCHANGED fetches
       ELSE IF req.body.t = "null"
       THEN resp' = CaughtResponse("Cannot destructure property")
            /\ spc' = "responded" /\ UNCHANGED fetches
       ELSE LET failure == ValidationFailure(req.body.imageBase64, apiKey) IN
            IF failure # None
            THEN resp' = failure /\ spc' = "responded" /\ UNCHANGED fetches
            ELSE resp' = None /\ spc' = "fetching" /\ fetches' = fetches + 1
    /\ UNCHANGED <<req, apiKey, gateway, pageVars, ruleVars>>

\* fetch returns or throws, and the handler runs to its response
GatewayReplies(reply) ==
    /\ spc = "fetching"
    /\ gateway' = reply
    /\ resp' = OnGatewayReply(reply)
    /\ spc' = "responded"
    /\ UNCHANGED <<req, apiKey, fetches, pageVars, ruleVars>>

\* ---- the inputs ----

Prefix(subtype) == <<Piece("data:", 5), Piece("image/", 6),
                     Piece(subtype, Len(subtype)), Piece(";base64", 7), Comma>>

\* the longest payload the size check lets through: ceil(0.75 * n) <= 10 MiB
LongestAccepted == (4 * MaxSizeBytes) \div 3

FieldLengths == {0, 4, LongestAccepted, LongestAccepted + 1}

\* fields of base64 characters with commas between them
RECURSIVE Fields(_)
Fields(lens) ==
    IF lens = <<>> THEN <<>>
    ELSE (IF Head(lens) = 0 THEN <<>> ELSE <<Base64Run(Head(lens))>>)
         \o (IF Len(lens) > 1 THEN <<Comma>> ELSE <<>>)
         \o Fields(Tail(lens))

Payloads == {Fields(lens) : lens \in SeqsUpTo(FieldLengths, MaxSegments)}

Heads ==
    { Prefix("png"), Prefix("jpeg"), Prefix("PNG"), Prefix("tiff"),
      <<Piece("data:", 5), Piece("text/plain", 10), Piece(";base64", 7), Comma>>,
      <<Piece("data:", 5), Piece("image/", 6), Piece("png", 3), Comma>>,
      <<>> }

\* JSON values that are no strings
OddImageValues ==
    { Num(0), Num(5), Bool(TRUE), [t |-> "object"], Array(<<>>),
      Array(<<Str(Prefix("png") \o <<Base64Run(4)>>)>>),
      Array(<<Str(Prefix("png") \o <<Base64Run(4)>>), Str(<<Base64Run(4)>>)>>) }

ImageValues ==
    {Undef, Null} \cup OddImageValues
    \cup {Str(h \o p) : h \in Heads, p \in Payloads}

AllRequests ==
    {Request("OPTIONS", NotJson), Request("POST", NotJson), Request("POST", Null)}
    \cup {Request("POST", JsonObject(v)) : v \in ImageValues}

BasicRequests ==
    {Request("OPTIONS", NotJson), Request("POST", NotJson), Request("POST", Null),
     Request("POST", JsonObject(Undef)),
     Request("POST", JsonObject(Str(Prefix("tiff") \o <<Base64Run(4)>>))),
     Request("POST", JsonObject(Str(Prefix("png") \o <<Base64Run(LongestAccepted + 1)>>))),
     Request("POST", JsonObject(Str(Prefix("png") \o <<Base64Run(4)>>)))}
    \cup {Request("POST", JsonObject(v)) : v \in OddImageValues}

Keys == {Undef, Str(<<"k">>)}

ContentPieces == {Fence, "json", "\n", " ", "1", "\"", "x"}

Contents ==
    {Undef, Null, Array(<<>>)} \cup {Str(c) : c \in SeqsUpTo(ContentPieces, MaxContent)}

Statuses == {200, 201, 401, 402, 429, 500}

BasicReplies ==
    { NetworkError,
      GatewayResponse(429, "upstream detail", FALSE, Undef),
      GatewayResponse(200, "", TRUE, Completion(Str(<<"1">>))) }

AllReplies ==
    {NetworkError}
    \cup {GatewayResponse(st, "upstream detail", FALSE, Undef) : st \in Statuses}
    \cup {GatewayResponse(st, "", TRUE, Null) : st \in {200}}
    \cup {GatewayResponse(st, "", TRUE, Completion(c)) : st \in {200, 201}, c \in Contents}

ServeStart(requests) ==
    /\ req \in requests /\ apiKey \in Keys
    /\ spc = "received" /\ gateway = None /\ fetches = 0 /\ resp = None

\* the checks on the request: every request, a few replies of the gateway
ServeInit == PageInit /\ RuleIdle /\ ServeStart(AllRequests)
BasicGatewayReplies == \E reply \in BasicReplies : GatewayReplies(reply)
ServeNext == Handle \/ BasicGatewayReplies
SpecServe == ServeInit /\ [][ServeNext]_vars

\* the handling of the gateway's reply: a few requests, every reply
GatewayInit == PageInit /\ RuleIdle /\ ServeStart(BasicRequests)
AllGatewayReplies == \E reply \in AllReplies : GatewayReplies(reply)
GatewayNext == Handle \/ AllGatewayReplies
SpecGateway == GatewayInit /\ [][GatewayNext]_vars

\* the two layers side by side: a behaviour is one of the page, whose calls
\* the service answers as it may, or one of the handler on one request
LayersInit == Init \/ GatewayInit
LayersNext == (spc = "none" /\ Next) \/ GatewayNext
SpecLayers == LayersInit /\ [][LayersNext]_vars

----------------------------------------------------------------------------
(* Properties of the handler                                               *)

\* the handler has answered with this status and this error message
Answers(status, msg) ==
    /\ spc = "responded"
    /\ resp.t = "response"
    /\ resp.status = status
    /\ resp.body.t = "error"
    /\ resp.body.error = msg

\* a POST request whose body is a JSON object, with an imageBase64 that is
\* absent or a string, has been looked at
ObjectRequestHandled ==
    /\ spc # "received" /\ req.method = "POST" /\ req.body.t = "object"
    /\ req.body.imageBase64.t \in {"undefined", "null", "string"}

\* imageBase64 is absent, null or the empty string
ImageMissing(v) == v.t \in {"undefined", "null"} \/ v = Str(<<>>)

\* imageBase64 starts with data:image/<subtype>;base64, for a supported subtype
HasSupportedPrefix(v) ==
    \E subtype \in SupportedSubtypes :
        Len(v.s) >= 5 /\ SubSeq(v.s, 1, 5) = Prefix(subtype)

\* C4: the checks run in the order presence, format, size, credential, and
\* the first that fails gives the answer: 400 "No image provided", else 400
\* with the format message, else 400 "Image too large...", else 500 "API key
\* not configured"; an input check that fails gives its 400 also when the
\* credential is missing, and the gateway is called only when all four
\* pass.  The size is the one the handler's size check measures, and
\* imageBase64 is absent or a string.
C4_ChecksInOrder ==
    ObjectRequestHandled =>
        LET v == req.body.imageBase64 IN
        IF ImageMissing(v) THEN Answers(400, MsgNoImage) /\ fetches = 0
        ELSE IF ~HasSupportedPrefix(v) THEN Answers(400, MsgFormat) /\ fetches = 0
        ELSE IF SizeInBytes(v.s) > MaxSizeBytes
        THEN Answers(400, MsgTooLarge) /\ fetches = 0
        ELSE IF apiKey.t = "undefined" THEN Answers(500, MsgNoKey) /\ fetches = 0
        ELSE fetches = 1

\* a request with an unsupported subtype, on a server without credential,
\* has been answered with the format message
C4_Witness ==
    /\ ObjectRequestHandled
    /\ apiKey = Undef
    /\ ~ImageMissing(req.body.imageBase64)
    /\ ~HasSupportedPrefix(req.body.imageBase64)
    /\ TextLength(req.body.imageBase64.s) > LongestAccepted
    /\ Answers(400, MsgFormat)

\* the length of everything that follows the marker base64,
PayloadLength(v) == TextLength(SubSeq(v.s, 6, Len(v.s)))

\* C5: a request whose imageBase64 is present and has a supported prefix is
\* answered 400 "Image too large. Maximum size is 10MB." exactly when
\* ceil(0.75 * L) exceeds 10 * 1024 * 1024, L being the length of everything
\* that follows the marker base64,
C5_TooLargeIffPayloadOverLimit ==
    (ObjectRequestHandled /\ ~ImageMissing(req.body.imageBase64)
        /\ HasSupportedPrefix(req.body.imageBase64)) =>
        LET L == PayloadLength(req.body.imageBase64) IN
        (spc = "responded" /\ Answers(400, MsgTooLarge))
            <=> ((3 * L + 3) \div 4 > 10 * 1024 * 1024)

\* C7: when the gateway answers with a status that is no success, the
\* handler answers 429 with the rate-limit message for 429, 402 with the
\* credits message for 402, and 500 with "Failed to process document" for
\* any other status; the gateway's error text is not in the response.
C7_UpstreamFailureMapping ==
    (spc = "responded" /\ gateway.t = "response" /\ gateway.status \notin 200..299) =>
        /\ gateway.status = 429 => Answers(429, MsgRate)
        /\ gateway.status = 402 => Answers(402, MsgCredits)
        /\ gateway.status \notin {429, 402} => Answers(500, MsgFailed)
        /\ resp.body.t = "error"
        /\ resp.body.error # gateway.text
        /\ resp.body.rawContent = Undef

\* the gateway has answered 401 and the handler 500 with the generic message
C7_Witness ==
    /\ spc = "responded"
    /\ gateway.t = "response"
    /\ gateway.status = 401
    /\ gateway.text = "upstream detail"
    /\ Answers(500, MsgFailed)

\* the reply without the fence markers that surround it: one marker, with
\* the word json and a line break if they follow it, at the start, and one
\* marker at the end
WithoutSurroundingFences(c) ==
    LET t0 == Trim(c)
        t1 == IF Len(t0) >= 2 /\ t0[1] = Fence /\ t0[2] = "json"
              THEN SubSeq(t0, 3, Len(t0))
              ELSE IF t0 # <<>> /\ t0[1] = Fence THEN Tail(t0)
              ELSE t0
        t2 == Trim(t1)
    IN  IF t2 # <<>> /\ t2[Len(t2)] = Fence THEN SubSeq(t2, 1, Len(t2) - 1) ELSE t2

\* the gateway has answered with a success status and a completion object
CompletionReceived ==
    /\ spc = "responded"
    /\ gateway.t = "response"
    /\ gateway.status \in 200..299
    /\ gateway.json
    /\ gateway.data.t = "object"

\* C8: after a successful upstream response the fence markers around the
\* model's reply are stripped and the rest is parsed: valid JSON gives 200
\* with the parsed value as it is, anything else 500 with "Failed to parse
\* extracted data" and rawContent equal to the reply as it came, a reply
\* without content included.
C8_SurroundingFencesStrippedThenParsed ==
    CompletionReceived =>
        LET content == gateway.data.content
            parsed  == IF content.t = "string"
                       THEN ParseJson(WithoutSurroundingFences(content.s))
                       ELSE [ok |-> FALSE, value |-> Undef]
        IN  IF parsed.ok
            THEN resp.status = 200 /\ resp.body = parsed.value
            ELSE Answers(500, MsgParse) /\ resp.body.rawContent = content

\* C13: every response of the handler, on every path, carries
\* Access-Control-Allow-Origin: *; the response to OPTIONS has no body and a
\* 2xx status; every response with a body declares Content-Type
\* application/json.
C13_CorsOnEveryResponse ==
    resp.t = "response" =>
        /\ resp.headers.allowOrigin = "*"
        /\ req.method = "OPTIONS" => resp.body = Null /\ resp.status \in 200..299
        /\ resp.body # Null => resp.headers.contentType = "application/json"

\* the call of the gateway has failed and the catch block has answered
C13_Witness ==
    /\ spc = "responded"
    /\ gateway.t = "networkError"
    /\ resp.status = 500
    /\ resp.headers = JsonHeaders
    /\ resp.body.t = "error"

\* imageBase64 is a string with a supported prefix that passes the size check
WellFormedImage(v) ==
    /\ v.t = "string"
    /\ HasSupportedPrefix(v)
    /\ SizeInBytes(v.s) <= MaxSizeBytes

\* C14: an exception that no more specific path handles (a body that is no
\* JSON, a failed call of the gateway) is answered 500 with an error
\* message; every response that is not 2xx has a body with an error string;
\* and an imageBase64 that is missing or malformed is answered 400.
C14_ExceptionsAndClientErrors ==
    spc = "responded" =>
        /\ (req.method = "POST" /\ req.body.t \in {"notJson", "null"}) =>
              resp.status = 500 /\ resp.body.t = "error"
        /\ gateway.t = "networkError" => resp.status = 500 /\ resp.body.t = "error"
        /\ resp.status \notin 200..299 =>
              resp.body.t = "error" /\ resp.body.error \in STRING
        /\ (req.method = "POST" /\ req.body.t = "object"
               /\ ~WellFormedImage(req.body.imageBase64)) => resp.status = 400

\* C15: nothing is tried a second time: in a batch every image of the list
\* is sent to the service at most once, and the handler calls the gateway
\* at most once for a request, whatever status the gateway answers with.
C15_NothingIsRetried ==
    /\ \A b \in DOMAIN batches :
          /\ Len(batches[b].calls) <= Len(batches[b].imgs)
          /\ \A j, k \in DOMAIN batches[b].calls :
                j # k => batches[b].calls[j] # batches[b].calls[k]
    /\ finished.t = "batch" =>
          \A j, k \in DOMAIN finished.calls :
              j # k => finished.calls[j] # finished.calls[k]
    /\ fetches <= 1
    /\ (spc = "responded" /\ gateway.t = "response") => fetches = 1

\* a batch of three images has returned; two of its calls failed, and each
\* image was sent once
C15_Witness ==
    /\ finished.t = "batch"
    /\ finished.calls = <<1, 2, 3>>
    /\ finished.failedCount = 2
    /\ Len(finished.published) = 1

============================================================================
